---- MODULE Spec2Model ----
\* Model of qa_video_simple.py: main, read_csv_with_encoding, create_video,
\* create_qa_clip and create_audio_file as one sequential state machine.
\* External collaborators (speech engine, audio device, decoder, encoder,
\* file system) are modelled by nondeterministic outcomes.
EXTENDS Integers, Sequences, FiniteSets, TLC

\* ---------------------------------------------------------------- bounds
MaxPairs == 2          \* most data rows in the input table
MaxDur == 1            \* longest decoded audio duration, in tenths of a second

\* ------------------------------------------------------------- constants
PauseDuration == 5     \* set_duration(0.5), in tenths of a second

encodings == <<"utf-8", "utf-8-sig", "latin1", "cp1252">>

Undecodable == 0 - 1   \* content of a file sf.read cannot decode

Durations == 0..MaxDur

VARIABLES
    pc,             \* position of the single thread of control
    csv,            \* the input file: [exists, rows]
    qa_pairs,       \* main: rows returned by read_csv_with_encoding
    i,              \* create_video: loop index of enumerate(qa_pairs, 1)
    all_clips,      \* create_video: accumulated clip list
    clips,          \* create_qa_clip: the list being returned
    qOk,            \* create_qa_clip: result of create_audio_file(question)
    aOk,            \* create_qa_clip: result of create_audio_file(answer)
    tempExists,     \* directory 'temp' exists
    tempFiles,      \* files in 'temp': [kind, idx, dur]
    outFile,        \* output/qa_video.mp4: "none", "partial", "complete"
    writeAttempts,  \* audio codecs of the write_videofile calls so far
    synthLog,       \* create_audio_file calls so far: <<kind, idx>>
    decoded,        \* <<kind, idx>> for which sf.read succeeded
    selfTests,      \* number of audio-device self-tests run
    csvReads,       \* number of read_csv_with_encoding calls
    exc,            \* exception in flight ("none" when there is none)
    qaExit,         \* how each create_qa_clip call ended
    retval,         \* create_video: "none" or the returned path
    log,            \* user-visible messages printed so far
    wrap,           \* create_text_image: [wpc, text, words, k, current_line, lines]
    reader          \* read_csv_with_encoding: [rpc, file, result]

vars == <<pc, csv, qa_pairs, i, all_clips, clips, qOk, aOk, tempExists,
          tempFiles, outFile, writeAttempts, synthLog, decoded, selfTests,
          csvReads, exc, qaExit, retval, log, wrap, reader>>

Pairs == 1..MaxPairs

Encodings == {encodings[k] : k \in 1..Len(encodings)}

\* ------------------------------------------------- read_csv_with_encoding
\* Variant: the first encoding that decodes wins, whatever it parsed
RECURSIVE TryEncodings_NoSkip(_, _)
TryEncodings_NoSkip(f, k) ==
    IF k > Len(encodings)
    THEN [ok |-> FALSE, enc |-> "none", n |-> 0]
    ELSE IF f.decodes[encodings[k]]
         THEN [ok |-> TRUE, enc |-> encodings[k],
               n |-> f.rows[encodings[k]] - 1]
         ELSE TryEncodings_NoSkip(f, k + 1)

\* The loop over encodings: an encoding wins when the file decodes under it
\* and more than one row is parsed under it; the result is data[1:] (its
\* length here).
RECURSIVE TryEncodings(_, _)
TryEncodings(f, k) ==
    IF k > Len(encodings)
    THEN [ok |-> FALSE, enc |-> "none", n |-> 0]
    ELSE IF f.decodes[encodings[k]] /\ f.rows[encodings[k]] > 1
         THEN [ok |-> TRUE, enc |-> encodings[k],
               n |-> f.rows[encodings[k]] - 1]
         ELSE TryEncodings(f, k + 1)

read_csv_with_encoding(f) == TryEncodings(f, 1)

\* ------------------------------------------------------ create_audio_file
\* Variant: the except branch of the test also reports success
create_audio_file_IgnoreDecode(readable, playOk) == playOk

\* Lines 68-81: True iff sf.read decoded the file and the playback test did
\* not raise; the number of decoded samples is not inspected.
create_audio_file(readable, playOk) == readable /\ playOk

\* A file of temp_dir
File(kind, idx, dur) == [kind |-> kind, idx |-> idx, dur |-> dur]

FilesAt(files, kind, idx) == {f \in files : f.kind = kind /\ f.idx = idx}

\* engine.save_to_file overwrites whatever is at the path
WriteFile(files, kind, idx, dur) ==
    {f \in files : ~(f.kind = kind /\ f.idx = idx)} \cup {File(kind, idx, dur)}

\* -------------------------------------------------------------------- Init
\* The input file: whether the path exists and how many rows csv.reader
\* parses from it (header included)
CsvFiles == [exists : BOOLEAN, rows : 0..(MaxPairs + 1)]

\* Which encodings decode the bytes of a file: latin1 decodes every byte
\* sequence, utf-8-sig decodes exactly what utf-8 decodes
DecodePatterns ==
    {d \in [Encodings -> BOOLEAN] :
        d["latin1"] /\ (d["utf-8"] = d["utf-8-sig"])}

Init ==
    /\ pc = "main"
    /\ csv \in CsvFiles
    /\ qa_pairs = <<>>
    /\ i = 0
    /\ all_clips = <<>>
    /\ clips = <<>>
    /\ qOk = FALSE
    /\ aOk = FALSE
    /\ tempExists \in BOOLEAN
    /\ tempFiles = {}
    /\ outFile = "none"
    /\ writeAttempts = <<>>
    /\ synthLog = <<>>
    /\ decoded = {}
    /\ selfTests = 0
    /\ csvReads = 0
    /\ exc = "none"
    /\ qaExit = [p \in Pairs |-> "none"]
    /\ retval = "none"
    /\ log = {}
    /\ wrap = [wpc |-> "idle"]
    /\ reader = [rpc |-> "idle"]

\* -------------------------------------------------------------------- main
\* Variant: a failed self-test is recorded but the run goes on
SelfTest_IgnoreFailure ==
    /\ pc = "main"
    /\ UNCHANGED <<wrap, reader>>
    /\ selfTests' = selfTests + 1
    /\ \E ok \in BOOLEAN :
        IF ok
        THEN /\ log' = log \cup {"Audio system test complete"}
             /\ exc' = exc
        ELSE /\ exc' = "PortAudioError"
             /\ log' = log
    /\ pc' = "main_exists"
    /\ UNCHANGED <<csv, qa_pairs, i, all_clips, clips, qOk, aOk, tempExists,
                   tempFiles, outFile, writeAttempts, synthLog, decoded,
                   csvReads, qaExit, retval>>

\* Lines 194-198: sd.play(np.zeros(44100), 44100); sd.wait()
SelfTest ==
    /\ pc = "main"
    /\ UNCHANGED <<wrap, reader>>
    /\ selfTests' = selfTests + 1
    /\ \E ok \in BOOLEAN :
        IF ok
        THEN /\ log' = log \cup {"Audio system test complete"}
             /\ pc' = "main_exists"
             /\ exc' = exc
        ELSE /\ exc' = "PortAudioError"
             /\ pc' = "main_except"
             /\ log' = log
    /\ UNCHANGED <<csv, qa_pairs, i, all_clips, clips, qOk, aOk, tempExists,
                   tempFiles, outFile, writeAttempts, synthLog, decoded,
                   csvReads, qaExit, retval>>

\* Lines 200-202: os.path.exists(args.csv)
CheckExists ==
    /\ pc = "main_exists"
    /\ UNCHANGED <<wrap, reader>>
    /\ IF csv.exists
       THEN /\ pc' = "main_read"
            /\ log' = log
       ELSE /\ pc' = "done"
            /\ log' = log \cup {"Error: CSV file not found"}
    /\ UNCHANGED <<csv, qa_pairs, i, all_clips, clips, qOk, aOk, tempExists,
                   tempFiles, outFile, writeAttempts, synthLog, decoded,
                   selfTests, csvReads, exc, qaExit, retval>>

\* Lines 204-209: qa_pairs = read_csv_with_encoding(args.csv), then the
\* emptiness test on the returned list.
ReadCsv ==
    /\ pc = "main_read"
    /\ UNCHANGED <<wrap, reader>>
    /\ csvReads' = csvReads + 1
    /\ \E d \in DecodePatterns :
        LET r == read_csv_with_encoding(
                     [rows |-> [e \in Encodings |-> csv.rows], decodes |-> d]) IN
        IF ~r.ok
        THEN /\ exc' = "CsvValueError"
             /\ pc' = "main_except"
             /\ UNCHANGED <<qa_pairs, log>>
        ELSE /\ qa_pairs' = [k \in 1..r.n |-> k + 1]
             /\ exc' = exc
             /\ IF qa_pairs' = <<>>
                THEN /\ log' = log \cup {"No Q&A pairs found in CSV file"}
                     /\ pc' = "done"
                ELSE /\ log' = log
                     /\ pc' = "cv_mkdir"
    /\ UNCHANGED <<csv, i, all_clips, clips, qOk, aOk, tempExists, tempFiles,
                   outFile, writeAttempts, synthLog, decoded, selfTests,
                   qaExit, retval>>

\* The message printed by the handler at lines 226-229 for each exception
ErrorMessage(e) ==
    CASE e = "CsvValueError" -> "Error: Could not read CSV file with any encoding"
      [] e = "RuntimeError" -> "Error: Failed to create or test audio files"
      [] e = "PortAudioError" -> "Error: audio device"
      [] e = "UnpackValueError" -> "Error: not enough values to unpack"
      [] e = "EngineError" -> "Error: speech engine"
      [] e = "ClipError" -> "Error: audio clip"
      [] e = "EncodeError" -> "Error: encoder"
      [] OTHER -> "Error"

\* Variant: the handler is "except ValueError", anything else escapes main
Except_OnlyValueError ==
    /\ pc = "main_except"
    /\ UNCHANGED <<wrap, reader>>
    /\ IF exc \in {"CsvValueError", "UnpackValueError"}
       THEN /\ log' = log \cup {ErrorMessage(exc)}
            /\ pc' = "done"
       ELSE /\ log' = log
            /\ pc' = "crashed"
    /\ UNCHANGED <<csv, qa_pairs, i, all_clips, clips, qOk, aOk, tempExists,
                   tempFiles, outFile, writeAttempts, synthLog, decoded,
                   selfTests, csvReads, exc, qaExit, retval>>

\* Lines 226-229: except Exception as e: print(f"Error: {str(e)}")
Except ==
    /\ pc = "main_except"
    /\ UNCHANGED <<wrap, reader>>
    /\ log' = log \cup {ErrorMessage(exc)}
    /\ pc' = "done"
    /\ UNCHANGED <<csv, qa_pairs, i, all_clips, clips, qOk, aOk, tempExists,
                   tempFiles, outFile, writeAttempts, synthLog, decoded,
                   selfTests, csvReads, exc, qaExit, retval>>

\* Lines 212-224: report, then the VideoFileClip test of the written file,
\* whose own failure is caught and printed.
Report ==
    /\ pc = "main_report"
    /\ UNCHANGED <<wrap, reader>>
    /\ \E testOk \in BOOLEAN :
        log' = log \cup {"Video created successfully"}
                   \cup (IF testOk THEN {"Video loaded successfully"}
                                   ELSE {"Error testing video"})
    /\ pc' = "done"
    /\ UNCHANGED <<csv, qa_pairs, i, all_clips, clips, qOk, aOk, tempExists,
                   tempFiles, outFile, writeAttempts, synthLog, decoded,
                   selfTests, csvReads, exc, qaExit, retval>>

\* ---------------------------------------------------------- create_qa_clip
\* sf.read(path) succeeds: the file exists and decodes
Readable(files, kind, idx) ==
    \E f \in files : f.kind = kind /\ f.idx = idx /\ f.dur >= 0

\* Duration of the decodable file at the path
DurationOf(files, kind, idx) ==
    (CHOOSE f \in files : f.kind = kind /\ f.idx = idx /\ f.dur >= 0).dur

\* Lines 58-65: the engine writes the file (or silently writes nothing)
Synthesized(files, kind, idx, written, dur) ==
    IF written THEN WriteFile(files, kind, idx, dur) ELSE files

\* Line 88, left operand: create_audio_file(question, q_audio_path); a False
\* result raises without evaluating the right operand.
SynthQuestion ==
    /\ pc = "qa_q"
    /\ UNCHANGED <<wrap, reader>>
    /\ synthLog' = Append(synthLog, <<"q", i>>)
    /\ \E engineOk \in BOOLEAN, written \in BOOLEAN,
          dur \in {Undecodable} \cup Durations, playOk \in BOOLEAN :
        IF ~engineOk
        THEN /\ exc' = "EngineError"
             /\ qaExit' = [qaExit EXCEPT ![i] = "raised_engine"]
             /\ pc' = "cv_finally"
             /\ UNCHANGED <<tempFiles, decoded, qOk>>
        ELSE /\ tempFiles' = Synthesized(tempFiles, "q", i, written, dur)
             /\ decoded' = IF Readable(tempFiles', "q", i)
                           THEN decoded \cup {<<"q", i>>} ELSE decoded
             /\ qOk' = create_audio_file(Readable(tempFiles', "q", i), playOk)
             /\ IF ~qOk'
                THEN /\ exc' = "RuntimeError"
                     /\ qaExit' = [qaExit EXCEPT ![i] = "raised_audio"]
                     /\ pc' = "cv_finally"
                ELSE /\ pc' = "qa_a"
                     /\ UNCHANGED <<exc, qaExit>>
    /\ UNCHANGED <<csv, qa_pairs, i, all_clips, clips, aOk, tempExists,
                   outFile, writeAttempts, selfTests, csvReads, retval, log>>

\* Line 88, right operand: create_audio_file(answer, a_audio_path)
SynthAnswer ==
    /\ pc = "qa_a"
    /\ UNCHANGED <<wrap, reader>>
    /\ synthLog' = Append(synthLog, <<"a", i>>)
    /\ \E engineOk \in BOOLEAN, written \in BOOLEAN,
          dur \in {Undecodable} \cup Durations, playOk \in BOOLEAN :
        IF ~engineOk
        THEN /\ exc' = "EngineError"
             /\ qaExit' = [qaExit EXCEPT ![i] = "raised_engine"]
             /\ pc' = "cv_finally"
             /\ UNCHANGED <<tempFiles, decoded, aOk>>
        ELSE /\ tempFiles' = Synthesized(tempFiles, "a", i, written, dur)
             /\ decoded' = IF Readable(tempFiles', "a", i)
                           THEN decoded \cup {<<"a", i>>} ELSE decoded
             /\ aOk' = create_audio_file(Readable(tempFiles', "a", i), playOk)
             /\ IF ~aOk'
                THEN /\ exc' = "RuntimeError"
                     /\ qaExit' = [qaExit EXCEPT ![i] = "raised_audio"]
                     /\ pc' = "cv_finally"
                ELSE /\ pc' = "qa_try"
                     /\ UNCHANGED <<exc, qaExit>>
    /\ UNCHANGED <<csv, qa_pairs, i, all_clips, clips, qOk, tempExists,
                   outFile, writeAttempts, selfTests, csvReads, retval, log>>

Clip(pair, kind, duration, audio) ==
    [pair |-> pair, kind |-> kind, duration |-> duration, audio |-> audio]

\* Variant: each clip takes the duration of the other audio
QaClips_Swapped(pair, qDur, aDur) ==
    << Clip(pair, "q", aDur, TRUE),
       Clip(pair, "pause", PauseDuration, FALSE),
       Clip(pair, "a", qDur, TRUE),
       Clip(pair, "pause", PauseDuration, FALSE) >>

\* Lines 103-112: [q_clip, pause, a_clip, pause]
QaClips(pair, qDur, aDur) ==
    << Clip(pair, "q", qDur, TRUE),
       Clip(pair, "pause", PauseDuration, FALSE),
       Clip(pair, "a", aDur, TRUE),
       Clip(pair, "pause", PauseDuration, FALSE) >>

\* Lines 91-112: the try body. AudioFileClip raises on a missing or
\* undecodable file and may raise on any other file.
BuildClips ==
    /\ pc = "qa_try"
    /\ UNCHANGED <<wrap, reader>>
    /\ \E clipOk \in BOOLEAN :
        IF clipOk /\ Readable(tempFiles, "q", i) /\ Readable(tempFiles, "a", i)
        THEN /\ clips' = QaClips(i, DurationOf(tempFiles, "q", i),
                                    DurationOf(tempFiles, "a", i))
             /\ exc' = exc
        ELSE /\ clips' = <<>>
             /\ exc' = "ClipError"
    /\ pc' = "qa_finally"
    /\ UNCHANGED <<csv, qa_pairs, i, all_clips, qOk, aOk, tempExists,
                   tempFiles, outFile, writeAttempts, synthLog, decoded,
                   selfTests, csvReads, qaExit, retval, log>>

Without(files, kind, idx) == {f \in files : ~(f.kind = kind /\ f.idx = idx)}

\* Lines 116-121: for file in [q_audio_path, a_audio_path]: unlink if it
\* exists; the first unlink that raises ends the loop with a warning.
PairCleanup(files, idx, qDel, aDel) ==
    IF FilesAt(files, "q", idx) # {} /\ ~qDel
    THEN [files |-> files, warned |-> TRUE]
    ELSE IF FilesAt(files, "a", idx) # {} /\ ~aDel
         THEN [files |-> Without(files, "q", idx), warned |-> TRUE]
         ELSE [files |-> Without(Without(files, "q", idx), "a", idx),
               warned |-> FALSE]

\* Variant: the deletions are not wrapped in try/except, so a failing
\* unlink raises out of the finally block
CleanupPair_Unguarded ==
    /\ pc = "qa_finally"
    /\ UNCHANGED <<wrap, reader>>
    /\ \E qDel \in BOOLEAN, aDel \in BOOLEAN :
        LET r == PairCleanup(tempFiles, i, qDel, aDel) IN
        /\ tempFiles' = r.files
        /\ log' = log
        /\ exc' = IF r.warned THEN "OSError" ELSE exc
    /\ IF exc' = "none"
       THEN /\ qaExit' = [qaExit EXCEPT ![i] = "returned"]
            /\ pc' = "cv_extend"
       ELSE /\ qaExit' = [qaExit EXCEPT ![i] = "raised_build"]
            /\ pc' = "cv_finally"
    /\ UNCHANGED <<csv, qa_pairs, i, all_clips, clips, qOk, aOk, tempExists,
                   outFile, writeAttempts, synthLog, decoded, selfTests,
                   csvReads, retval>>

\* Variant: a pair whose clips could not be built is skipped
CleanupPair_SkipFailed ==
    /\ pc = "qa_finally"
    /\ UNCHANGED <<wrap, reader>>
    /\ \E qDel \in BOOLEAN, aDel \in BOOLEAN :
        LET r == PairCleanup(tempFiles, i, qDel, aDel) IN
        /\ tempFiles' = r.files
        /\ log' = IF r.warned
                  THEN log \cup {"Warning: Could not delete temporary files"}
                  ELSE log
    /\ IF exc = "none"
       THEN /\ qaExit' = [qaExit EXCEPT ![i] = "returned"]
            /\ pc' = "cv_extend"
       ELSE /\ qaExit' = [qaExit EXCEPT ![i] = "raised_build"]
            /\ pc' = "cv_loop"
    /\ exc' = "none"
    /\ UNCHANGED <<csv, qa_pairs, i, all_clips, clips, qOk, aOk, tempExists,
                   outFile, writeAttempts, synthLog, decoded, selfTests,
                   csvReads, retval>>

\* Lines 114-121: the finally of create_qa_clip, then return or re-raise
CleanupPair ==
    /\ pc = "qa_finally"
    /\ UNCHANGED <<wrap, reader>>
    /\ \E qDel \in BOOLEAN, aDel \in BOOLEAN :
        LET r == PairCleanup(tempFiles, i, qDel, aDel) IN
        /\ tempFiles' = r.files
        /\ log' = IF r.warned
                  THEN log \cup {"Warning: Could not delete temporary files"}
                  ELSE log
    /\ IF exc = "none"
       THEN /\ qaExit' = [qaExit EXCEPT ![i] = "returned"]
            /\ pc' = "cv_extend"
       ELSE /\ qaExit' = [qaExit EXCEPT ![i] = "raised_build"]
            /\ pc' = "cv_finally"
    /\ UNCHANGED <<csv, qa_pairs, i, all_clips, clips, qOk, aOk, tempExists,
                   outFile, writeAttempts, synthLog, decoded, selfTests,
                   csvReads, exc, retval>>

\* ------------------------------------------------------------ create_video
\* Lines 124-127: output_path.mkdir(exist_ok=True); temp_path.mkdir(exist_ok=True)
MkDirs ==
    /\ pc = "cv_mkdir"
    /\ UNCHANGED <<wrap, reader>>
    /\ tempExists' = TRUE
    /\ pc' = "cv_loop"
    /\ UNCHANGED <<csv, qa_pairs, i, all_clips, clips, qOk, aOk, tempFiles,
                   outFile, writeAttempts, synthLog, decoded, selfTests,
                   csvReads, exc, qaExit, retval, log>>

\* Lines 132-134: the next (question, answer) of enumerate(qa_pairs, 1); a
\* row that does not hold exactly two fields fails to unpack.
LoopNext ==
    /\ pc = "cv_loop"
    /\ UNCHANGED <<wrap, reader>>
    /\ i < Len(qa_pairs)
    /\ i' = i + 1
    /\ \E twoFields \in BOOLEAN :
        IF twoFields
        THEN /\ pc' = "qa_q"
             /\ exc' = exc
        ELSE /\ pc' = "cv_finally"
             /\ exc' = "UnpackValueError"
    /\ qOk' = FALSE
    /\ aOk' = FALSE
    /\ clips' = <<>>
    /\ UNCHANGED <<csv, qa_pairs, all_clips, tempExists, tempFiles, outFile,
                   writeAttempts, synthLog, decoded, selfTests, csvReads,
                   qaExit, retval, log>>

\* Variant: the new clips are put in front
Extended_Prepend(all, new) == new \o all

\* Line 135: all_clips.extend(clips)
Extended(all, new) == all \o new

Extend ==
    /\ pc = "cv_extend"
    /\ UNCHANGED <<wrap, reader>>
    /\ all_clips' = Extended(all_clips, clips)
    /\ pc' = "cv_loop"
    /\ UNCHANGED <<csv, qa_pairs, i, clips, qOk, aOk, tempExists, tempFiles,
                   outFile, writeAttempts, synthLog, decoded, selfTests,
                   csvReads, exc, qaExit, retval, log>>

\* Lines 138-142: the loop is exhausted; concatenate_videoclips(all_clips)
Concatenate ==
    /\ pc = "cv_loop"
    /\ UNCHANGED <<wrap, reader>>
    /\ i >= Len(qa_pairs)
    /\ pc' = "cv_write1"
    /\ UNCHANGED <<csv, qa_pairs, i, all_clips, clips, qOk, aOk, tempExists,
                   tempFiles, outFile, writeAttempts, synthLog, decoded,
                   selfTests, csvReads, exc, qaExit, retval, log>>

\* What a failed write_videofile leaves at the output path: nothing new, or
\* the part of the file written before the failure.
AfterFailedWrite(before) == {before, "partial"}

\* Lines 145-161: first write_videofile, audio_codec='aac'
PrimaryWrite ==
    /\ pc = "cv_write1"
    /\ UNCHANGED <<wrap, reader>>
    /\ writeAttempts' = Append(writeAttempts, "aac")
    /\ \E ok \in BOOLEAN :
        IF ok
        THEN /\ outFile' = "complete"
             /\ pc' = "cv_return"
             /\ log' = log
        ELSE /\ outFile' \in AfterFailedWrite(outFile)
             /\ pc' = "cv_write2"
             /\ log' = log \cup {"First attempt failed"}
    /\ UNCHANGED <<csv, qa_pairs, i, all_clips, clips, qOk, aOk, tempExists,
                   tempFiles, synthLog, decoded, selfTests, csvReads, exc,
                   qaExit, retval>>

\* Variant: the fallback is retried after its own failure
FallbackWrite_Retrying ==
    /\ pc = "cv_write2"
    /\ UNCHANGED <<wrap, reader>>
    /\ writeAttempts' = Append(writeAttempts, "libmp3lame")
    /\ \E ok \in BOOLEAN :
        IF ok
        THEN /\ outFile' = "complete"
             /\ pc' = "cv_return"
             /\ exc' = exc
        ELSE /\ outFile' \in AfterFailedWrite(outFile)
             /\ pc' = IF Len(writeAttempts) < 2 THEN "cv_write2"
                                                ELSE "cv_finally"
             /\ exc' = IF Len(writeAttempts) < 2 THEN exc ELSE "EncodeError"
    /\ UNCHANGED <<csv, qa_pairs, i, all_clips, clips, qOk, aOk, tempExists,
                   tempFiles, synthLog, decoded, selfTests, csvReads,
                   qaExit, retval, log>>

\* Lines 162-170: second write_videofile, audio_codec='libmp3lame', inside
\* the except handler: its failure propagates.
FallbackWrite ==
    /\ pc = "cv_write2"
    /\ UNCHANGED <<wrap, reader>>
    /\ writeAttempts' = Append(writeAttempts, "libmp3lame")
    /\ \E ok \in BOOLEAN :
        IF ok
        THEN /\ outFile' = "complete"
             /\ pc' = "cv_return"
             /\ exc' = exc
        ELSE /\ outFile' \in AfterFailedWrite(outFile)
             /\ pc' = "cv_finally"
             /\ exc' = "EncodeError"
    /\ UNCHANGED <<csv, qa_pairs, i, all_clips, clips, qOk, aOk, tempExists,
                   tempFiles, synthLog, decoded, selfTests, csvReads,
                   qaExit, retval, log>>

\* Lines 172-173: return str(output_file)
Return ==
    /\ pc = "cv_return"
    /\ UNCHANGED <<wrap, reader>>
    /\ retval' = "output/qa_video.mp4"
    /\ pc' = "cv_finally"
    /\ UNCHANGED <<csv, qa_pairs, i, all_clips, clips, qOk, aOk, tempExists,
                   tempFiles, outFile, writeAttempts, synthLog, decoded,
                   selfTests, csvReads, exc, qaExit, log>>

\* Line 178: temp_path.glob('*.*') matches the names that contain a dot,
\* as q_<i>.wav and a_<i>.wav do
Globbed(files) == {f \in files : f.kind \in {"q", "a"}}

\* Lines 178-182: every matched file is unlinked; a failing unlink is passed
LeftAfterUnlink(files, failing) == files \ (Globbed(files) \ failing)

\* Variant: the cleanup follows the try block instead of being its finally
Cleanup_OnSuccessOnly ==
    /\ pc = "cv_finally"
    /\ UNCHANGED <<wrap, reader>>
    /\ IF tempExists /\ exc = "none"
       THEN \E failing \in SUBSET Globbed(tempFiles), rmdirOk \in BOOLEAN :
              /\ tempFiles' = LeftAfterUnlink(tempFiles, failing)
              /\ IF tempFiles' = {} /\ rmdirOk
                 THEN /\ tempExists' = FALSE
                      /\ log' = log
                 ELSE /\ tempExists' = TRUE
                      /\ log' = log \cup
                           {"Warning: Could not clean up temporary directory"}
       ELSE UNCHANGED <<tempExists, tempFiles, log>>
    /\ pc' = IF exc = "none" THEN "main_report" ELSE "main_except"
    /\ UNCHANGED <<csv, qa_pairs, i, all_clips, clips, qOk, aOk, outFile,
                   writeAttempts, synthLog, decoded, selfTests, csvReads,
                   exc, qaExit, retval>>

\* Lines 175-185: the finally of create_video, then return or re-raise.
\* rmdir raises on a directory that is not empty, and may raise otherwise
\* (an entry the glob does not match, a directory in use).
Cleanup ==
    /\ pc = "cv_finally"
    /\ UNCHANGED <<wrap, reader>>
    /\ IF tempExists
       THEN \E failing \in SUBSET Globbed(tempFiles), rmdirOk \in BOOLEAN :
              /\ tempFiles' = LeftAfterUnlink(tempFiles, failing)
              /\ IF tempFiles' = {} /\ rmdirOk
                 THEN /\ tempExists' = FALSE
                      /\ log' = log
                 ELSE /\ tempExists' = TRUE
                      /\ log' = log \cup
                           {"Warning: Could not clean up temporary directory"}
       ELSE UNCHANGED <<tempExists, tempFiles, log>>
    /\ pc' = IF exc = "none" THEN "main_report" ELSE "main_except"
    /\ UNCHANGED <<csv, qa_pairs, i, all_clips, clips, qOk, aOk, outFile,
                   writeAttempts, synthLog, decoded, selfTests, csvReads,
                   exc, qaExit, retval>>

\* ------------------------------------------------------------ specification
Next ==
    \/ SelfTest
    \/ CheckExists
    \/ ReadCsv
    \/ MkDirs
    \/ LoopNext
    \/ SynthQuestion
    \/ SynthAnswer
    \/ BuildClips
    \/ CleanupPair
    \/ Extend
    \/ Concatenate
    \/ PrimaryWrite
    \/ FallbackWrite
    \/ Return
    \/ Cleanup
    \/ Report
    \/ Except

Spec == Init /\ [][Next]_vars

TypeOK ==
    /\ pc \in {"main", "main_exists", "main_read", "main_except",
               "main_report", "done", "cv_mkdir", "cv_loop", "cv_extend",
               "cv_write1", "cv_write2", "cv_return", "cv_finally",
               "qa_q", "qa_a", "qa_try", "qa_finally"}
    /\ i \in 0..MaxPairs
    /\ outFile \in {"none", "partial", "complete"}
    /\ Len(writeAttempts) <= 2

\* ------------------------------------------------------------------ claims
\* create_video has been entered and left (it is entered exactly when
\* read_csv_with_encoding returned a non-empty list)
CvFinished ==
    qa_pairs # <<>> /\ pc \in {"main_report", "main_except", "done"}

AfterConcatenate ==
    \/ pc \in {"cv_write1", "cv_write2", "cv_return"}
    \/ retval # "none"
    \/ exc = "EncodeError"

PairFailed(p) == qaExit[p] \in {"raised_engine", "raised_audio", "raised_build"}

\* C1: the AAC write is attempted once, the libmp3lame write once and only
\* after the AAC write failed, and a failed fallback ends the attempts and
\* raises; there are never more than 2 write attempts.
C1_EncoderAttempts ==
    /\ Len(writeAttempts) <= 2
    /\ Len(writeAttempts) >= 1 => writeAttempts[1] = "aac"
    /\ Len(writeAttempts) = 2 =>
          writeAttempts[2] = "libmp3lame" /\ "First attempt failed" \in log
    /\ "First attempt failed" \in log =>
          IF pc = "cv_write2" THEN Len(writeAttempts) = 1
                              ELSE Len(writeAttempts) = 2
    /\ (AfterConcatenate /\ pc # "cv_write1") => Len(writeAttempts) >= 1
    /\ exc = "EncodeError" =>
          /\ Len(writeAttempts) = 2
          /\ retval = "none"
          /\ pc \in {"cv_finally", "main_except", "done"}
    /\ (pc = "done" /\ Len(writeAttempts) = 2) =>
          (retval # "none" \/ (exc = "EncodeError" /\ "Error: encoder" \in log))

C1_Witness ==
    pc = "done" /\ writeAttempts = <<"aac", "libmp3lame">> /\ exc = "EncodeError"

\* C2: after a run that ended in failure no file is at the output path.
C2_NoFileAfterFailure ==
    (pc = "done" /\ retval = "none") => outFile = "none"

\* C3: when create_qa_clip raises because an audio file could not be
\* created or validated, no q_<i>.wav or a_<i>.wav of that pair exists at
\* the moment the error reaches create_video.
C3_AudioFailureLeavesNoFile ==
    (pc = "cv_finally" /\ i \in Pairs /\ exc = "RuntimeError") =>
        FilesAt(tempFiles, "q", i) \cup FilesAt(tempFiles, "a", i) = {}

\* C4 as stated: once create_video has finished, 'temp' does not exist.
C4_TempDirAlwaysRemoved ==
    CvFinished => ~tempExists

\* C4 as amended: on every exit path of create_video the cleanup runs, and
\* once create_video has finished 'temp' exists exactly when the cleanup
\* warned that it could not remove it; a file left in it keeps it in place.
C4_TempDirRemovedOrWarned ==
    CvFinished =>
        /\ tempExists <=>
             "Warning: Could not clean up temporary directory" \in log
        /\ tempFiles # {} => tempExists

C4_Witness ==
    CvFinished /\ exc = "RuntimeError" /\ ~tempExists /\ pc = "done"

\* C5: the accumulated list holds 4 clips for each pair processed so far and
\* none of any other pair, in pair order, and 4*N clips reach concatenation.
C5_FourClipsPerPairInOrder ==
    /\ Len(all_clips) % 4 = 0
    /\ \A j \in 1..Len(all_clips) : all_clips[j].pair = ((j - 1) \div 4) + 1
    /\ \A p \in Pairs :
          (4 * p <= Len(all_clips)) <=>
             (qaExit[p] = "returned" /\ ~(pc = "cv_extend" /\ i = p))
    /\ AfterConcatenate => Len(all_clips) = 4 * Len(qa_pairs)

C5_Witness ==
    pc = "cv_write1" /\ Len(all_clips) = 8 /\ Len(qa_pairs) = 2

\* C6: on an existing header-only file the run ends with the message
\* "No Q&A pairs found in CSV file", without synthesis, encoding or output.
C6_HeaderOnlyMessage ==
    (pc = "done" /\ csv.exists /\ csv.rows = 1
        /\ "Audio system test complete" \in log) =>
        /\ "No Q&A pairs found in CSV file" \in log
        /\ synthLog = <<>>
        /\ writeAttempts = <<>>
        /\ outFile = "none"

\* C7: pairs are synthesized in input order and at most once, and after a
\* pair fails nothing is synthesized, concatenated or encoded any more and
\* the error leaves create_video.
C7_PairFailureAborts ==
    /\ \A a \in 1..Len(synthLog) : \A b \in 1..Len(synthLog) :
          a < b =>
             \/ synthLog[a][2] < synthLog[b][2]
             \/ /\ synthLog[a][2] = synthLog[b][2]
                /\ synthLog[a][1] = "q"
                /\ synthLog[b][1] = "a"
    /\ \A p \in Pairs :
          PairFailed(p) =>
             /\ i = p
             /\ \A k \in 1..Len(synthLog) : synthLog[k][2] <= p
             /\ \A r \in Pairs : r > p => qaExit[r] = "none"
             /\ writeAttempts = <<>>
             /\ ~AfterConcatenate
             /\ retval = "none"
             /\ exc \in {"EngineError", "RuntimeError", "ClipError"}
             /\ pc \in {"cv_finally", "main_except", "done"}
             /\ pc = "done" => ErrorMessage(exc) \in log

C7_Witness ==
    /\ pc = "done"
    /\ Len(qa_pairs) >= 2
    /\ qaExit[1] = "raised_build"
    /\ qaExit[2] = "none"

\* C8: a synthesized file of duration zero makes create_audio_file report
\* failure, and no clip with audio has duration 0.
C8_ZeroDurationRejected ==
    /\ pc = "qa_a" => \A f \in FilesAt(tempFiles, "q", i) : f.dur # 0
    /\ pc = "qa_try" => \A f \in FilesAt(tempFiles, "a", i) : f.dur # 0
    /\ \A j \in 1..Len(all_clips) :
          all_clips[j].audio => all_clips[j].duration # 0

\* C9: clip construction is reached only after sf.read decoded both the
\* question file and the answer file of the pair, and every clip with audio
\* comes from a decoded file.
C9_ClipsOnlyFromDecodedFiles ==
    /\ pc \in {"qa_try", "qa_finally", "cv_extend"} =>
          <<"q", i>> \in decoded /\ <<"a", i>> \in decoded
    /\ pc = "qa_a" => <<"q", i>> \in decoded
    /\ \A j \in 1..Len(clips) :
          clips[j].audio => <<clips[j].kind, clips[j].pair>> \in decoded
    /\ \A j \in 1..Len(all_clips) :
          all_clips[j].audio =>
             <<all_clips[j].kind, all_clips[j].pair>> \in decoded
    /\ \A p \in Pairs :
          (<<"q", p>> \in {synthLog[k] : k \in 1..Len(synthLog)}
              /\ <<"q", p>> \notin decoded) =>
             /\ qaExit[p] \in {"raised_engine", "raised_audio"}
             /\ <<"a", p>> \notin {synthLog[k] : k \in 1..Len(synthLog)}

C9_Witness ==
    /\ pc = "done"
    /\ Len(all_clips) = 4
    /\ Len(qa_pairs) = 2
    /\ <<"q", 2>> \in decoded
    /\ <<"a", 2>> \notin decoded
    /\ qaExit[2] = "raised_audio"

\* C10: the self-test runs once and before anything else, and when it fails
\* the input is not read, nothing is synthesized and nothing is encoded.
C10_SelfTestFirst ==
    /\ selfTests <= 1
    /\ selfTests = 0 =>
          /\ pc = "main"
          /\ csvReads = 0
          /\ synthLog = <<>>
          /\ writeAttempts = <<>>
          /\ log = {}
    /\ exc = "PortAudioError" =>
          /\ pc \in {"main_except", "done"}
          /\ csvReads = 0
          /\ qa_pairs = <<>>
          /\ synthLog = <<>>
          /\ writeAttempts = <<>>
          /\ outFile = "none"

C10_Witness ==
    pc = "done" /\ exc = "PortAudioError" /\ selfTests = 1 /\ csv.exists

\* C11: no exception escapes main: an exception in flight is on its way to
\* the handler of main, and once it is out of flight main has printed its
\* message and returned; a missing input path is reported without any
\* synthesis or encoding.
C11_NoExceptionEscapes ==
    /\ exc # "none" =>
          \/ pc \in {"qa_finally", "cv_finally", "main_except"}
          \/ pc = "done" /\ ErrorMessage(exc) \in log
    /\ (pc = "done" /\ exc = "none" /\ retval = "none") =>
          \/ "Error: CSV file not found" \in log
          \/ "No Q&A pairs found in CSV file" \in log
    /\ (~csv.exists /\ selfTests = 1 /\ exc = "none" /\ pc # "main_exists") =>
          /\ pc = "done"
          /\ "Error: CSV file not found" \in log
          /\ csvReads = 0
          /\ synthLog = <<>>
          /\ writeAttempts = <<>>
    /\ pc = "done" => log # {}

C11_Witness ==
    /\ pc = "done"
    /\ exc = "RuntimeError"
    /\ "Error: Failed to create or test audio files" \in log
    /\ retval = "none"

\* ------------------------------------------------------- create_text_image
MaxWords == 4          \* most tokens in a text

Width == 1280          \* size[0]
Margin == 60           \* margin
FontSize == 48         \* font_size

\* Line 18: max_width = size[0] - 2 * margin
max_width == Width - 2 * Margin

\* Lengths of the words of a text; 0 stands for a run of further whitespace
WordLens == {1, 23, 24, 48, 49}

Tokens == WordLens \cup {0}

Texts == UNION {[1..n -> Tokens] : n \in 0..MaxWords}

\* Line 19: text.split() keeps the non-empty words, in order
IsWord(t) == t > 0

split(text) == SelectSeq(text, IsWord)

\* Variant: the separating spaces are not counted
RECURSIVE JoinLen_NoSpaces(_, _)
JoinLen_NoSpaces(words, line) ==
    IF line = <<>> THEN 0
    ELSE words[line[1]] + JoinLen_NoSpaces(words, Tail(line))

\* len(' '.join(line)); a line is a list of positions in words
RECURSIVE JoinLen(_, _)
JoinLen(words, line) ==
    IF line = <<>> THEN 0
    ELSE IF Len(line) = 1 THEN words[line[1]]
    ELSE words[line[1]] + 1 + JoinLen(words, Tail(line))

\* Line 25: test_line = ' '.join(current_line)
TestLineLen(words, line) == JoinLen(words, line)

\* Line 26: len(test_line) * (font_size / 2) > max_width
TooWide(chars) == chars * FontSize > 2 * max_width

\* current_line[:-1]
AllButLast(line) == SubSeq(line, 1, Len(line) - 1)

\* Variant: the word that overflows is not carried to the next line
WrapStep_DropWord(words, st, k) ==
    LET cl == Append(st.current_line, k) IN
    IF TooWide(TestLineLen(words, cl))
    THEN [current_line |-> <<>>, lines |-> Append(st.lines, AllButLast(cl))]
    ELSE [current_line |-> cl, lines |-> st.lines]

\* Variant: the line is closed with the word that overflows it
WrapStep_CloseWithWord(words, st, k) ==
    LET cl == Append(st.current_line, k) IN
    IF TooWide(TestLineLen(words, cl))
    THEN [current_line |-> <<>>, lines |-> Append(st.lines, cl)]
    ELSE [current_line |-> cl, lines |-> st.lines]

\* Lines 24-28: one iteration of the loop, for the word at position k
WrapStep(words, st, k) ==
    LET cl == Append(st.current_line, k) IN
    IF TooWide(TestLineLen(words, cl))
    THEN [current_line |-> <<k>>, lines |-> Append(st.lines, AllButLast(cl))]
    ELSE [current_line |-> cl, lines |-> st.lines]

\* Lines 19-21: words = text.split(); lines = []; current_line = []
WrapStart ==
    /\ wrap.wpc = "call"
    /\ wrap' = [wpc |-> "loop", text |-> wrap.text, words |-> split(wrap.text),
                k |-> 1, current_line |-> <<>>, lines |-> <<>>]
    /\ UNCHANGED <<pc, csv, qa_pairs, i, all_clips, clips, qOk, aOk,
                   tempExists, tempFiles, outFile, writeAttempts, synthLog,
                   decoded, selfTests, csvReads, exc, qaExit, retval, log,
                   reader>>

\* Lines 23-28: for word in words
WrapWord ==
    /\ wrap.wpc = "loop"
    /\ wrap.k <= Len(wrap.words)
    /\ LET r == WrapStep(wrap.words, wrap, wrap.k) IN
        wrap' = [wrap EXCEPT !.k = wrap.k + 1,
                             !.current_line = r.current_line,
                             !.lines = r.lines]
    /\ UNCHANGED <<pc, csv, qa_pairs, i, all_clips, clips, qOk, aOk,
                   tempExists, tempFiles, outFile, writeAttempts, synthLog,
                   decoded, selfTests, csvReads, exc, qaExit, retval, log,
                   reader>>

\* Lines 30-31: if current_line: lines.append(' '.join(current_line))
WrapFlush ==
    /\ wrap.wpc = "loop"
    /\ wrap.k > Len(wrap.words)
    /\ wrap' = [wrap EXCEPT !.wpc = "done",
                            !.lines = IF wrap.current_line # <<>>
                                      THEN Append(wrap.lines, wrap.current_line)
                                      ELSE wrap.lines]
    /\ UNCHANGED <<pc, csv, qa_pairs, i, all_clips, clips, qOk, aOk,
                   tempExists, tempFiles, outFile, writeAttempts, synthLog,
                   decoded, selfTests, csvReads, exc, qaExit, retval, log,
                   reader>>

\* The variables of main while a single function is exercised
MainIdle ==
    /\ pc = "main"
    /\ csv = [exists |-> FALSE, rows |-> 0]
    /\ qa_pairs = <<>>
    /\ i = 0
    /\ all_clips = <<>>
    /\ clips = <<>>
    /\ qOk = FALSE
    /\ aOk = FALSE
    /\ tempExists = FALSE
    /\ tempFiles = {}
    /\ outFile = "none"
    /\ writeAttempts = <<>>
    /\ synthLog = <<>>
    /\ decoded = {}
    /\ selfTests = 0
    /\ csvReads = 0
    /\ exc = "none"
    /\ qaExit = [p \in Pairs |-> "none"]
    /\ retval = "none"
    /\ log = {}

InitWrap ==
    /\ MainIdle
    /\ reader = [rpc |-> "idle"]
    /\ \E text \in Texts : wrap = [wpc |-> "call", text |-> text]

NextWrap ==
    \/ WrapStart
    \/ WrapWord
    \/ WrapFlush

SpecWrap == InitWrap /\ [][NextWrap]_vars

\* ------------------------------------------------ claims on the word-wrap
WrapDone == wrap.wpc = "done"

\* The positions of the words of all lines, read line by line
RECURSIVE Flatten(_)
Flatten(ls) == IF ls = <<>> THEN <<>> ELSE Head(ls) \o Flatten(Tail(ls))

RECURSIVE SumWords(_, _, _)
SumWords(words, line, n) ==
    IF n = 0 THEN 0 ELSE words[line[n]] + SumWords(words, line, n - 1)

\* Characters of a line: its words and one space between neighbours
LineChars(words, line) ==
    IF line = <<>> THEN 0
    ELSE SumWords(words, line, Len(line)) + Len(line) - 1

AllWordsFit(words) == \A p \in 1..Len(words) : ~TooWide(words[p])

\* C12: when every word fits the width on its own, the words of the lines,
\* read line by line, are the words of the text in their order: none is
\* dropped, repeated or moved.
C12_WordsPreserved ==
    (WrapDone /\ AllWordsFit(wrap.words)) =>
        Flatten(wrap.lines) = [p \in 1..Len(wrap.words) |-> p]

C12_Witness ==
    /\ WrapDone
    /\ AllWordsFit(wrap.words)
    /\ Len(wrap.words) >= 3
    /\ Len(wrap.lines) >= 2
    /\ \E l \in 1..Len(wrap.lines) : Len(wrap.lines[l]) >= 2

\* C17: every line of two or more words is within the width limit, and
\* every line but the last would exceed it with the first word of the next
\* line appended.
C17_GreedyLines ==
    WrapDone =>
        /\ \A l \in 1..Len(wrap.lines) :
              Len(wrap.lines[l]) >= 2 =>
                 ~TooWide(LineChars(wrap.words, wrap.lines[l]))
        /\ \A l \in 1..(Len(wrap.lines) - 1) :
              /\ wrap.lines[l + 1] # <<>>
              /\ TooWide(LineChars(wrap.words,
                    Append(wrap.lines[l], Head(wrap.lines[l + 1]))))

C17_Witness ==
    /\ WrapDone
    /\ Len(wrap.lines) >= 2
    /\ Len(wrap.lines[1]) >= 2
    /\ LineChars(wrap.words, wrap.lines[1]) = 48
    /\ AllWordsFit(wrap.words)

\* C18: a word that is too wide on its own, wherever it stands in the text,
\* is alone on its line.
C18_OverlongWordAlone ==
    WrapDone =>
        \A p \in 1..Len(wrap.words) :
            TooWide(wrap.words[p]) =>
                \E l \in 1..Len(wrap.lines) : wrap.lines[l] = <<p>>

C18_Witness ==
    /\ WrapDone
    /\ Len(wrap.words) >= 3
    /\ TooWide(wrap.words[2])
    /\ ~TooWide(wrap.words[1])
    /\ ~TooWide(wrap.words[3])
    /\ wrap.lines = << <<1>>, <<2>>, <<3>> >>

RowCounts == 0..(MaxPairs + 1)

\* Files as the reader sees them: which encodings decode the bytes, and how
\* many rows csv.reader parses under each. The delimiters, quotes and line
\* ends are ASCII, so utf-8, latin1 and cp1252 parse the same rows; under
\* utf-8-sig a leading signature is removed, which can change the parse.
ReaderFiles ==
    {[decodes |-> d,
      rows |-> [e \in Encodings |-> IF e = "utf-8-sig" THEN s ELSE r]] :
        d \in DecodePatterns, r \in RowCounts, s \in RowCounts}

\* Lines 41-54: the call and its outcome (rows returned, or ValueError)
ReaderCall ==
    /\ reader.rpc = "call"
    /\ reader' = [rpc |-> "done", file |-> reader.file,
                  result |-> read_csv_with_encoding(reader.file)]
    /\ UNCHANGED <<pc, csv, qa_pairs, i, all_clips, clips, qOk, aOk,
                   tempExists, tempFiles, outFile, writeAttempts, synthLog,
                   decoded, selfTests, csvReads, exc, qaExit, retval, log,
                   wrap>>

InitReader ==
    /\ MainIdle
    /\ wrap = [wpc |-> "idle"]
    /\ \E f \in ReaderFiles : reader = [rpc |-> "call", file |-> f]

NextReader == ReaderCall

SpecReader == InitReader /\ [][NextReader]_vars

\* An encoding qualifies when the file decodes under it and more than the
\* header row is parsed
Qualifies(f, k) == f.decodes[encodings[k]] /\ f.rows[encodings[k]] > 1

Qualifying(f) == {k \in 1..Len(encodings) : Qualifies(f, k)}

\* C13: the reader returns the rows after the header as parsed under the
\* first encoding of the list that qualifies, and raises ValueError exactly
\* when none qualifies.
C13_FirstQualifyingEncoding ==
    reader.rpc = "done" =>
        LET f == reader.file
            Q == Qualifying(f)
        IN /\ reader.result.ok <=> Q # {}
           /\ Q # {} =>
                \E k \in Q :
                    /\ \A j \in Q : k <= j
                    /\ reader.result.enc = encodings[k]
                    /\ reader.result.n = f.rows[encodings[k]] - 1

C13_Witness ==
    /\ reader.rpc = "done"
    /\ ~reader.file.decodes["utf-8"]
    /\ reader.file.rows["utf-8"] > 1
    /\ reader.file.rows["utf-8-sig"] <= 1
    /\ reader.result.ok
    /\ reader.result.enc = "latin1"
    /\ reader.result.n = 2

\* ------------------------------------------------- claims on the segments
\* A list of 4 clips of one pair in the order question, pause, answer, pause
FourSegments(cs, b, pair) ==
    /\ cs[b + 1].kind = "q" /\ cs[b + 1].audio /\ cs[b + 1].pair = pair
    /\ cs[b + 2].kind = "pause" /\ ~cs[b + 2].audio
    /\ cs[b + 2].duration = PauseDuration
    /\ cs[b + 3].kind = "a" /\ cs[b + 3].audio /\ cs[b + 3].pair = pair
    /\ cs[b + 4].kind = "pause" /\ ~cs[b + 4].audio
    /\ cs[b + 4].duration = PauseDuration

TotalDuration(cs, b) ==
    cs[b + 1].duration + cs[b + 2].duration + cs[b + 3].duration
        + cs[b + 4].duration

\* C14: a successful create_qa_clip returns [question, pause, answer, pause];
\* question and answer carry audio and last as long as their own audio, the
\* pauses last 0.5 s without audio, and the pair lasts both audios + 1.0 s.
C14_SegmentsOfAPair ==
    /\ (pc = "qa_finally" /\ exc = "none") =>
          /\ Len(clips) = 4
          /\ FourSegments(clips, 0, i)
          /\ clips[1].duration = DurationOf(tempFiles, "q", i)
          /\ clips[3].duration = DurationOf(tempFiles, "a", i)
          /\ TotalDuration(clips, 0) =
                DurationOf(tempFiles, "q", i) + DurationOf(tempFiles, "a", i)
                    + 10
    /\ pc = "cv_extend" => Len(clips) = 4 /\ FourSegments(clips, 0, i)
    /\ \A p \in Pairs :
          4 * p <= Len(all_clips) =>
             /\ FourSegments(all_clips, 4 * (p - 1), p)
             /\ TotalDuration(all_clips, 4 * (p - 1)) =
                   all_clips[4 * p - 3].duration
                       + all_clips[4 * p - 1].duration + 10

C14_Witness ==
    /\ pc = "qa_finally"
    /\ exc = "none"
    /\ i = 2
    /\ clips[1].duration = 1
    /\ clips[3].duration = 0
    /\ Len(all_clips) = 4
    /\ all_clips[1].duration = 0
    /\ all_clips[3].duration = 1

\* C15: once create_qa_clip has returned or raised for a pair, neither of
\* the pair's audio files exists, so only the files of the pair in hand are
\* ever in temp and none is there while the video is written.
C15_PairFilesGoneOnExit ==
    /\ \A p \in Pairs :
          qaExit[p] # "none" =>
             FilesAt(tempFiles, "q", p) \cup FilesAt(tempFiles, "a", p) = {}
    /\ pc \in {"qa_q", "qa_a", "qa_try", "qa_finally"} =>
          \A f \in tempFiles : f.idx = i
    /\ pc \in {"cv_write1", "cv_write2", "cv_return"} => tempFiles = {}

\* C16: a failing deletion or directory removal leaves the outcome as it
\* was: the finally blocks of create_qa_clip and create_video pass on the
\* clips, the return value and the exception in flight unchanged.
C16_CleanupKeepsOutcome ==
    [][ /\ pc = "qa_finally" =>
             /\ exc' = exc
             /\ clips' = clips
             /\ exc = "none" => Len(clips') = 4
             /\ pc' = IF exc = "none" THEN "cv_extend" ELSE "cv_finally"
        /\ pc = "cv_finally" =>
             /\ exc' = exc
             /\ retval' = retval
             /\ outFile' = outFile
             /\ pc' = IF exc = "none" THEN "main_report" ELSE "main_except"
      ]_vars

C16_Witness ==
    /\ pc = "done"
    /\ exc = "none"
    /\ retval = "output/qa_video.mp4"
    /\ "Warning: Could not delete temporary files" \in log
    /\ "Warning: Could not clean up temporary directory" \in log
    /\ "Video created successfully" \in log
    /\ tempFiles # {}

====
